---------------------------- MODULE Spec2Model ----------------------------
(***************************************************************************)
(* A model of yegonesh (src/main.go): a dmenu launcher that scans $PATH    *)
(* with one goroutine per directory, merges the result behind the ranked   *)
(* launch history, and rewrites the history file after a launch.           *)
(*                                                                         *)
(* Three parts share the module, each with its own specification:          *)
(*   SpecScan  fetchExecutables + scanPath and a consumer ranging over out *)
(*   SpecMux   multiplexMenuStreams between its two producers and a reader *)
(*   SpecHist  readHistory / writeHistory inside main's launcher cycle     *)
(***************************************************************************)
EXTENDS Integers, Sequences, FiniteSets, Bags, TLC

VARIABLES
    \* ---- scanPath / fetchExecutables (src/main.go:44-90)
    dirs,       \* strings.Split(path, ":"): one directory listing per component
    spawned,    \* number of iterations of scanPath's spawn loop already run
    group,      \* the sync.WaitGroup counter
    fidx,       \* fidx[i]: entries of dirs[i] the fetcher goroutine has passed
    fch,        \* fch[i]: buffer of fetchExecutables' channel (capacity 1)
    fclosed,    \* fclosed[i]: that channel has been closed
    wpc,        \* wpc[i]: position of the per-directory worker goroutine
    witem,      \* witem[i]: the worker's loop variable item
    wsnap,      \* wsnap[i]: the value of commands the worker's append has read
    commands,   \* the shared slice  var commands []string
    epc,        \* position of the sorting/emitting goroutine
    eidx,       \* names the emitter has already sent on out
    outClosed,  \* scanPath's out channel has been closed
    result,     \* what the consumer ranging over out has received, in order
    \* ---- multiplexMenuStreams (src/main.go:138-171)
    ranked,     \* the names the history channel's producer sends, in order
    discovered, \* the names the commands channel's producer sends, in order
    hsent,      \* names received so far from the history channel
    hclosed,    \* the history channel has been closed
    dsent,      \* names received so far from the commands channel
    dclosed,    \* the commands channel has been closed
    mpc,        \* position of multiplexMenuStreams' goroutine
    mcmd,       \* its loop variable cmd
    seen,       \* the keys of  seen map[string]bool
    muxClosed,  \* multiplexMenuStreams' out channel has been closed
    muxOut,     \* what the reader of that channel has received, in order
    muxFrom,    \* for each name of muxOut, the channel it was taken from
    \* ---- readHistory / writeHistory / main (src/main.go:92-136, 231-251)
    file,       \* history.tsv: whether it exists, and its lines
    history,    \* main's variable history: the Commands readHistory returned
    cmd,        \* main's variable cmd: what runDmenu returned
    lpc,        \* position of main in the launcher cycle
    started,    \* launchCommand resolved the selection and called cmd.Start()
    runs        \* launcher invocations started so far

scanVars == <<dirs, spawned, group, fidx, fch, fclosed, wpc, witem, wsnap,
              commands, epc, eidx, outClosed, result>>

muxVars == <<ranked, discovered, hsent, hclosed, dsent, dclosed, mpc, mcmd,
             seen, muxClosed, muxOut, muxFrom>>

histVars == <<file, history, cmd, lpc, started, runs>>

\* what fetchExecutables and scanPath leave alone
notScan == <<muxVars, histVars>>

\* what multiplexMenuStreams and its producers leave alone
notMux == <<scanVars, histVars>>

\* what readHistory, writeHistory and main's cycle leave alone
notHist == <<scanVars, muxVars>>

vars == <<scanVars, muxVars, histVars>>

-----------------------------------------------------------------------------
(* Bounds and input domains                                                *)

\* Longest search path (number of ":"-separated components) explored.
MaxDirs == 2

\* Byte values of the names used as directory entries.
Bytes ==
    [n \in {"Xorg", "emacs", "nano", "vim"} |->
        CASE n = "Xorg"  -> <<88, 111, 114, 103>>
          [] n = "emacs" -> <<101, 109, 97, 99, 115>>
          [] n = "nano"  -> <<110, 97, 110, 111>>
          [] n = "vim"   -> <<118, 105, 109>>]

File(n, m) == [name |-> n, mode |-> m]

\* A directory that does not exist or cannot be read: ioutil.ReadDir returns
\* a nil list and an error, and fetchExecutables drops the error.
Unreadable == [ok |-> FALSE, files |-> <<>>]

Readable(fs) == [ok |-> TRUE, files |-> fs]

\* Directory listings a path component can stand for (modes in decimal:
\* 0111 = 73, 0666 = 438, 0744 = 484).  The second and third are the two
\* directories of TestScanPath; the fourth holds an entry without any
\* execute bit, and a name that sorts before the others only byte-wise.
Listings ==
    { Unreadable,
      Readable(<<File("vim", 484)>>),
      Readable(<<File("emacs", 484), File("nano", 484)>>),
      Readable(<<File("Xorg", 73), File("nano", 438)>>) }

-----------------------------------------------------------------------------
(* Pure helpers                                                            *)

RECURSIVE BitAnd(_, _)
\* a & b on non-negative integers
BitAnd(a, b) ==
    IF a = 0 \/ b = 0 THEN 0
    ELSE (IF a % 2 = 1 /\ b % 2 = 1 THEN 1 ELSE 0)
         + 2 * BitAnd(a \div 2, b \div 2)

\* the permission mask of  f.Mode()&0111 != 0
ExecMask == 73

\* a filter that asks for all three execute bits
IsExecForAll(f) == BitAnd(f.mode, ExecMask) = ExecMask

IsExec(f) == BitAnd(f.mode, ExecMask) # 0

RECURSIVE BytesLess(_, _)
\* Go's < on strings: byte-wise lexicographic, a proper prefix is smaller
BytesLess(a, b) ==
    IF b = <<>> THEN FALSE
    ELSE IF a = <<>> THEN TRUE
    ELSE IF a[1] # b[1] THEN a[1] < b[1]
    ELSE BytesLess(Tail(a), Tail(b))

StrLess(a, b) == BytesLess(Bytes[a], Bytes[b])

\* position of s[i] once s is in ascending order (equal strings keep
\* their order, which no one can observe: they are the same value)
StrRank(s, i) ==
    Cardinality({j \in 1..Len(s) :
                    StrLess(s[j], s[i]) \/ (s[j] = s[i] /\ j <= i)})

\* sort.Strings: s in ascending order by <
SortStrings(s) ==
    [k \in 1..Len(s) |-> s[CHOOSE i \in 1..Len(s) : StrRank(s, i) = k]]

\* files, _ := ioutil.ReadDir(dir)
ReadDir(d) == IF d.ok THEN d.files ELSE <<>>

RECURSIVE NextExec(_, _)
\* index of the first executable entry of fs after position k, or 0
NextExec(fs, k) ==
    IF k >= Len(fs) THEN 0
    ELSE IF IsExec(fs[k + 1]) THEN k + 1
    ELSE NextExec(fs, k + 1)

Workers == 1..Len(dirs)

\* the history file does not exist
NoFile == [exists |-> FALSE, lines |-> <<>>]

\* the history file holding the lines ls
FileOf(ls) == [exists |-> TRUE, lines |-> ls]

\* the launcher's part of the state while it is not running
HistIdle ==
    /\ file = NoFile
    /\ history = <<>>
    /\ cmd = <<>>
    /\ lpc = "idle"
    /\ started = FALSE
    /\ runs = 0

\* the multiplexer's part of the state while only the scan is running
MuxIdle ==
    /\ ranked = <<>>
    /\ discovered = <<>>
    /\ hsent = 0
    /\ hclosed = FALSE
    /\ dsent = 0
    /\ dclosed = FALSE
    /\ mpc = "idle"
    /\ mcmd = ""
    /\ seen = {}
    /\ muxClosed = FALSE
    /\ muxOut = <<>>
    /\ muxFrom = <<>>

\* the scan's part of the state while only the multiplexer is running
ScanIdle ==
    /\ dirs = <<>>
    /\ spawned = 0
    /\ group = 0
    /\ fidx = <<>>
    /\ fch = <<>>
    /\ fclosed = <<>>
    /\ wpc = <<>>
    /\ witem = <<>>
    /\ wsnap = <<>>
    /\ commands = <<>>
    /\ epc = "idle"
    /\ eidx = 0
    /\ outClosed = FALSE
    /\ result = <<>>

-----------------------------------------------------------------------------
(* scanPath and fetchExecutables                                           *)

InitScan ==
    /\ dirs \in UNION {[1..n -> Listings] : n \in 1..MaxDirs}
    /\ spawned = 0
    /\ group = 0
    /\ fidx = [i \in 1..Len(dirs) |-> 0]
    /\ fch = [i \in 1..Len(dirs) |-> <<>>]
    /\ fclosed = [i \in 1..Len(dirs) |-> FALSE]
    /\ wpc = [i \in 1..Len(dirs) |-> "idle"]
    /\ witem = [i \in 1..Len(dirs) |-> ""]
    /\ wsnap = [i \in 1..Len(dirs) |-> <<>>]
    /\ commands = <<>>
    /\ epc = "idle"
    /\ eidx = 0
    /\ outClosed = FALSE
    /\ result = <<>>
    /\ MuxIdle
    /\ HistIdle

\* One iteration of  for _, dir := range dirs { group.Add(1); go func ... }
Spawn ==
    /\ spawned < Len(dirs)
    /\ spawned' = spawned + 1
    /\ group' = group + 1
    /\ wpc' = [wpc EXCEPT ![spawned + 1] = "range"]
    /\ UNCHANGED <<dirs, fidx, fch, fclosed, witem, wsnap, commands, epc,
                   eidx, outClosed, result>>
    /\ UNCHANGED notScan

\* The loop is over: scanPath starts the emitting goroutine and returns out.
StartEmitter ==
    /\ spawned = Len(dirs)
    /\ epc = "idle"
    /\ epc' = "wait"
    /\ UNCHANGED <<dirs, spawned, group, fidx, fch, fclosed, wpc, witem,
                   wsnap, commands, eidx, outClosed, result>>
    /\ UNCHANGED notScan

\* fetchExecutables' goroutine:  out <- f.Name()  for the next executable
\* entry; the send blocks while the one-slot buffer is full.
FetchSend(i) ==
    /\ wpc[i] # "idle"
    /\ ~fclosed[i]
    /\ NextExec(ReadDir(dirs[i]), fidx[i]) # 0
    /\ Len(fch[i]) < 1
    /\ LET k == NextExec(ReadDir(dirs[i]), fidx[i])
       IN  /\ fch' = [fch EXCEPT ![i] = Append(@, ReadDir(dirs[i])[k].name)]
           /\ fidx' = [fidx EXCEPT ![i] = k]
    /\ UNCHANGED <<dirs, spawned, group, fclosed, wpc, witem, wsnap,
                   commands, epc, eidx, outClosed, result>>
    /\ UNCHANGED notScan

\* a fetcher that returns on ReadDir's error without closing its channel
FetchCloseUnlessError(i) ==
    /\ wpc[i] # "idle"
    /\ ~fclosed[i]
    /\ dirs[i].ok
    /\ NextExec(ReadDir(dirs[i]), fidx[i]) = 0
    /\ fclosed' = [fclosed EXCEPT ![i] = TRUE]
    /\ fidx' = [fidx EXCEPT ![i] = Len(ReadDir(dirs[i]))]
    /\ UNCHANGED <<dirs, spawned, group, fch, wpc, witem, wsnap, commands,
                   epc, eidx, outClosed, result>>
    /\ UNCHANGED notScan

\* fetchExecutables' goroutine: the range over files is exhausted, close(out)
FetchClose(i) ==
    /\ wpc[i] # "idle"
    /\ ~fclosed[i]
    /\ NextExec(ReadDir(dirs[i]), fidx[i]) = 0
    /\ fclosed' = [fclosed EXCEPT ![i] = TRUE]
    /\ fidx' = [fidx EXCEPT ![i] = Len(ReadDir(dirs[i]))]
    /\ UNCHANGED <<dirs, spawned, group, fch, wpc, witem, wsnap, commands,
                   epc, eidx, outClosed, result>>
    /\ UNCHANGED notScan

\* worker:  for item := range fetchExecutables(dir)  receives one item
WorkerRecv(i) ==
    /\ wpc[i] = "range"
    /\ fch[i] # <<>>
    /\ witem' = [witem EXCEPT ![i] = Head(fch[i])]
    /\ fch' = [fch EXCEPT ![i] = Tail(@)]
    /\ wpc' = [wpc EXCEPT ![i] = "load"]
    /\ UNCHANGED <<dirs, spawned, group, fidx, fclosed, wsnap, commands,
                   epc, eidx, outClosed, result>>
    /\ UNCHANGED notScan

\* worker:  commands = append(commands, item)  first reads the shared slice.
\* No lock or channel orders this read against the other workers' writes.
WorkerLoad(i) ==
    /\ wpc[i] = "load"
    /\ wsnap' = [wsnap EXCEPT ![i] = commands]
    /\ wpc' = [wpc EXCEPT ![i] = "store"]
    /\ UNCHANGED <<dirs, spawned, group, fidx, fch, fclosed, witem,
                   commands, epc, eidx, outClosed, result>>
    /\ UNCHANGED notScan

\* worker: ... and then writes back the slice it read, extended by item.
WorkerStore(i) ==
    /\ wpc[i] = "store"
    /\ commands' = Append(wsnap[i], witem[i])
    /\ wsnap' = [wsnap EXCEPT ![i] = <<>>]
    /\ witem' = [witem EXCEPT ![i] = ""]
    /\ wpc' = [wpc EXCEPT ![i] = "range"]
    /\ UNCHANGED <<dirs, spawned, group, fidx, fch, fclosed, epc, eidx,
                   outClosed, result>>
    /\ UNCHANGED notScan

\* worker: the channel is closed and drained, the range ends: group.Done()
WorkerDone(i) ==
    /\ wpc[i] = "range"
    /\ fch[i] = <<>>
    /\ fclosed[i]
    /\ wpc' = [wpc EXCEPT ![i] = "done"]
    /\ group' = group - 1
    /\ UNCHANGED <<dirs, spawned, fidx, fch, fclosed, witem, wsnap,
                   commands, epc, eidx, outClosed, result>>
    /\ UNCHANGED notScan

\* a Wait that never blocks
WaitSkipped == TRUE

\* group.Wait() returns once the counter is zero
WaitReturns == group = 0

\* emitter:  group.Wait()
EmitWait ==
    /\ epc = "wait"
    /\ WaitReturns
    /\ epc' = "sort"
    /\ UNCHANGED <<dirs, spawned, group, fidx, fch, fclosed, wpc, witem,
                   wsnap, commands, eidx, outClosed, result>>
    /\ UNCHANGED notScan

\* an emitter that forgets to sort
Unsorted(s) == s

\* what  sort.Strings(commands)  leaves in commands
Sorted(s) == SortStrings(s)

\* emitter:  sort.Strings(commands)
EmitSort ==
    /\ epc = "sort"
    /\ commands' = Sorted(commands)
    /\ epc' = "emit"
    /\ UNCHANGED <<dirs, spawned, group, fidx, fch, fclosed, wpc, witem,
                   wsnap, eidx, outClosed, result>>
    /\ UNCHANGED notScan

\* emitter:  out <- cmd .  out is unbuffered, so the send completes together
\* with the consumer's receive.
EmitSend ==
    /\ epc = "emit"
    /\ eidx < Len(commands)
    /\ eidx' = eidx + 1
    /\ result' = Append(result, commands[eidx + 1])
    /\ UNCHANGED <<dirs, spawned, group, fidx, fch, fclosed, wpc, witem,
                   wsnap, commands, epc, outClosed>>
    /\ UNCHANGED notScan

\* emitter:  close(out)
EmitClose ==
    /\ epc = "emit"
    /\ eidx = Len(commands)
    /\ epc' = "closed"
    /\ outClosed' = TRUE
    /\ UNCHANGED <<dirs, spawned, group, fidx, fch, fclosed, wpc, witem,
                   wsnap, commands, eidx, result>>
    /\ UNCHANGED notScan

Fetcher(i) == FetchSend(i) \/ FetchClose(i)

Worker(i) == WorkerRecv(i) \/ WorkerLoad(i) \/ WorkerStore(i) \/ WorkerDone(i)

Emitter == EmitWait \/ EmitSort \/ EmitSend \/ EmitClose

NextScan ==
    \/ Spawn
    \/ StartEmitter
    \/ \E i \in Workers : FetchSend(i)
    \/ \E i \in Workers : FetchClose(i)
    \/ \E i \in Workers : WorkerRecv(i)
    \/ \E i \in Workers : WorkerLoad(i)
    \/ \E i \in Workers : WorkerStore(i)
    \/ \E i \in Workers : WorkerDone(i)
    \/ EmitWait
    \/ EmitSort
    \/ EmitSend
    \/ EmitClose

SpecScan == InitScan /\ [][NextScan]_vars

\* Go's scheduler keeps running some runnable goroutine, and the consumer
\* (part of EmitSend) keeps receiving from out.
FairSpecScan == SpecScan /\ WF_vars(NextScan)

-----------------------------------------------------------------------------
(* multiplexMenuStreams between historyNameStream, scanPath's output and   *)
(* the reader of the merged stream.  As in main, all three channels are    *)
(* unbuffered: a send completes together with the matching receive, and a  *)
(* producer with a name left is blocked in its send, offering that name.   *)

\* Longest ranked and longest discovered sequence explored.
MaxLen == 3

\* Names the two sources are built from.
MuxNames == {"emacs", "nano", "vim"}

SeqsUpTo(S, n) == UNION {[1..k -> S] : k \in 0..n}

InitMux ==
    /\ ranked \in SeqsUpTo(MuxNames, MaxLen)
    /\ discovered \in SeqsUpTo(MuxNames, MaxLen)
    /\ hsent = 0
    /\ hclosed = FALSE
    /\ dsent = 0
    /\ dclosed = FALSE
    /\ mpc = "rangeHistory"
    /\ mcmd = ""
    /\ seen = {}
    /\ muxClosed = FALSE
    /\ muxOut = <<>>
    /\ muxFrom = <<>>
    /\ ScanIdle
    /\ HistIdle

\* historyNameStream's goroutine: every name is sent, close(out)
HistoryClose ==
    /\ ~hclosed
    /\ hsent = Len(ranked)
    /\ hclosed' = TRUE
    /\ UNCHANGED <<ranked, discovered, hsent, dsent, dclosed, mpc, mcmd,
                   seen, muxClosed, muxOut, muxFrom>>
    /\ UNCHANGED notMux

\* the producer of the commands channel (scanPath's emitter): close(out)
CommandsClose ==
    /\ ~dclosed
    /\ dsent = Len(discovered)
    /\ dclosed' = TRUE
    /\ UNCHANGED <<ranked, discovered, hsent, hclosed, dsent, mpc, mcmd,
                   seen, muxClosed, muxOut, muxFrom>>
    /\ UNCHANGED notMux

\* a first loop that forgets  seen[cmd] = true
MuxRecvHistoryUnseen ==
    /\ mpc = "rangeHistory"
    /\ hsent < Len(ranked)
    /\ hsent' = hsent + 1
    /\ mcmd' = ranked[hsent + 1]
    /\ mpc' = "sendHistory"
    /\ UNCHANGED <<ranked, discovered, hclosed, dsent, dclosed, seen,
                   muxClosed, muxOut, muxFrom>>
    /\ UNCHANGED notMux

\* for cmd := range history  receives a name;  seen[cmd] = true
MuxRecvHistory ==
    /\ mpc = "rangeHistory"
    /\ hsent < Len(ranked)
    /\ hsent' = hsent + 1
    /\ mcmd' = ranked[hsent + 1]
    /\ seen' = seen \cup {ranked[hsent + 1]}
    /\ mpc' = "sendHistory"
    /\ UNCHANGED <<ranked, discovered, hclosed, dsent, dclosed, muxClosed,
                   muxOut, muxFrom>>
    /\ UNCHANGED notMux

\* out <- cmd  in the first loop, completed by the reader's receive
MuxSendHistory ==
    /\ mpc = "sendHistory"
    /\ muxOut' = Append(muxOut, mcmd)
    /\ muxFrom' = Append(muxFrom, "history")
    /\ mcmd' = ""
    /\ mpc' = "rangeHistory"
    /\ UNCHANGED <<ranked, discovered, hsent, hclosed, dsent, dclosed, seen,
                   muxClosed>>
    /\ UNCHANGED notMux

\* the range over history ends: the channel is closed and nothing is left
MuxHistoryDone ==
    /\ mpc = "rangeHistory"
    /\ hclosed
    /\ hsent = Len(ranked)
    /\ mpc' = "rangeCommands"
    /\ UNCHANGED <<ranked, discovered, hsent, hclosed, dsent, dclosed, mcmd,
                   seen, muxClosed, muxOut, muxFrom>>
    /\ UNCHANGED notMux

\* a merge that takes from commands whenever a name is offered there, as a
\* select over both channels would
MuxRecvCommandsAnytime ==
    /\ mpc \in {"rangeHistory", "rangeCommands"}
    /\ dsent < Len(discovered)
    /\ dsent' = dsent + 1
    /\ IF discovered[dsent + 1] \notin seen
       THEN /\ mcmd' = discovered[dsent + 1]
            /\ mpc' = "sendCommands"
       ELSE /\ mcmd' = ""
            /\ mpc' = mpc
    /\ UNCHANGED <<ranked, discovered, hsent, hclosed, dclosed, seen,
                   muxClosed, muxOut, muxFrom>>
    /\ UNCHANGED notMux

\* for cmd := range commands  receives a name;  if _, ok := seen[cmd]; !ok
MuxRecvCommands ==
    /\ mpc = "rangeCommands"
    /\ dsent < Len(discovered)
    /\ dsent' = dsent + 1
    /\ IF discovered[dsent + 1] \notin seen
       THEN /\ mcmd' = discovered[dsent + 1]
            /\ mpc' = "sendCommands"
       ELSE /\ mcmd' = ""
            /\ mpc' = "rangeCommands"
    /\ UNCHANGED <<ranked, discovered, hsent, hclosed, dclosed, seen,
                   muxClosed, muxOut, muxFrom>>
    /\ UNCHANGED notMux

\* out <- cmd  in the second loop, completed by the reader's receive
MuxSendCommands ==
    /\ mpc = "sendCommands"
    /\ muxOut' = Append(muxOut, mcmd)
    /\ muxFrom' = Append(muxFrom, "commands")
    /\ mcmd' = ""
    /\ mpc' = "rangeCommands"
    /\ UNCHANGED <<ranked, discovered, hsent, hclosed, dsent, dclosed, seen,
                   muxClosed>>
    /\ UNCHANGED notMux

\* a close(out) as soon as no name is offered on commands
MuxCloseEarly ==
    /\ mpc = "rangeCommands"
    /\ dsent = Len(discovered)
    /\ muxClosed' = TRUE
    /\ mpc' = "done"
    /\ UNCHANGED <<ranked, discovered, hsent, hclosed, dsent, dclosed, mcmd,
                   seen, muxOut, muxFrom>>
    /\ UNCHANGED notMux

\* the range over commands ends: close(out)
MuxClose ==
    /\ mpc = "rangeCommands"
    /\ dclosed
    /\ dsent = Len(discovered)
    /\ muxClosed' = TRUE
    /\ mpc' = "done"
    /\ UNCHANGED <<ranked, discovered, hsent, hclosed, dsent, dclosed, mcmd,
                   seen, muxOut, muxFrom>>
    /\ UNCHANGED notMux

NextMux ==
    \/ HistoryClose
    \/ CommandsClose
    \/ MuxRecvHistory
    \/ MuxSendHistory
    \/ MuxHistoryDone
    \/ MuxRecvCommands
    \/ MuxSendCommands
    \/ MuxClose

SpecMux == InitMux /\ [][NextMux]_vars

\* Both producers close their channel once their names are taken, the
\* reader keeps receiving, and the multiplexer's goroutine keeps running.
FairSpecMux == SpecMux /\ WF_vars(NextMux)

-----------------------------------------------------------------------------
(* readHistory, writeHistory and main's launcher cycle.  Text is a         *)
(* sequence of one-character strings, the file a sequence of lines without *)
(* their "\n".  Calls is a uint64 in the code; the counts explored stay    *)
(* far below 2^64, and no Calls field carries a sign.  Every line fits    *)
(* bufio.Scanner's token buffer, so scanner.Scan() delivers each of them.  *)

\* Most lines of the history file at the start.
MaxLines == 3

\* Most launcher invocations in a row on the same file.
MaxRuns == 2

Tab == "\t"

Newline == "\n"

\* Names the file holds at the start.
FileNames == {<<"v", "i">>, <<"e", "d">>}

\* Counts the file holds at the start; 9 makes an increment add a digit.
FileCalls == {1, 9}

\* Lines dmenu can print: a name of the file, a program with an argument,
\* or a name with a tab inside.
DmenuNames == FileNames \cup {<<"e", "d", " ", "x">>, <<"v", Tab, "i">>}

DigitChars == <<"0", "1", "2", "3", "4", "5", "6", "7", "8", "9">>

IsDigit(c) == \E d \in DOMAIN DigitChars : DigitChars[d] = c

DigitVal(c) == (CHOOSE d \in DOMAIN DigitChars : DigitChars[d] = c) - 1

RECURSIVE Itoa(_)
\* the verb %d
Itoa(n) ==
    IF n < Len(DigitChars) THEN <<DigitChars[n + 1]>>
    ELSE Itoa(n \div Len(DigitChars))
         \o <<DigitChars[(n % Len(DigitChars)) + 1]>>

RECURSIVE DecVal(_, _)
\* the number the first n characters of s spell in base 10
DecVal(s, n) ==
    IF n = 0 THEN 0
    ELSE Len(DigitChars) * DecVal(s, n - 1) + DigitVal(s[n])

\* strconv.ParseInt(s, 10, 64) on unsigned text
ParseInt(s) ==
    IF Len(s) > 0 /\ \A i \in 1..Len(s) : IsDigit(s[i])
    THEN [err |-> FALSE, val |-> DecVal(s, Len(s))]
    ELSE [err |-> TRUE, val |-> 0]

IsSpace(c) == c \in {" ", Tab, Newline}

\* strings.TrimSpace
TrimSpace(s) ==
    LET keep == {i \in 1..Len(s) : ~IsSpace(s[i])}
    IN  IF keep = {} THEN <<>>
        ELSE SubSeq(s, CHOOSE i \in keep : \A j \in keep : i <= j,
                       CHOOSE i \in keep : \A j \in keep : j <= i)

RECURSIVE Split(_, _)
\* strings.Split(s, sep) for a one-character sep
Split(s, sep) ==
    LET at == {i \in 1..Len(s) : s[i] = sep}
    IN  IF at = {} THEN <<s>>
        ELSE LET k == CHOOSE i \in at : \A j \in at : i <= j
             IN  <<SubSeq(s, 1, k - 1)>> \o Split(SubSeq(s, k + 1, Len(s)), sep)

\* fmt.Fprintf(f, "%d\t%s\n", command.Calls, command.Name)
FormatLine(c) == Itoa(c.Calls) \o <<Tab>> \o c.Name

\* One pass of readHistory's loop body: the Command of a line, or a panic
\* from check(err) or from s[1] on a line without a tab.
ParseLine(line) ==
    LET s == Split(TrimSpace(line), Tab)
        calls == ParseInt(s[1])
    IN  IF calls.err \/ Len(s) < 2
        THEN [panic |-> TRUE, command |-> [Name |-> <<>>, Calls |-> 0]]
        ELSE [panic |-> FALSE, command |-> [Name |-> s[2], Calls |-> calls.val]]

\* ByScore.Less on two Commands
Less(a, b) == a.Calls < b.Calls

\* an order that forgets sort.Reverse
NotReversed(a, b) == Less(a, b)

\* the Less of  sort.Reverse(ByScore{history})
ReverseLess(a, b) == Less(b, a)

RECURSIVE Orders(_, _)
\* Every arrangement of the elements s[i], i in I, in which no element
\* stands before one that is Less than it.
Orders(s, I) ==
    IF I = {} THEN {<<>>}
    ELSE UNION {{<<s[i]>> \o t : t \in Orders(s, I \ {i})} :
                   i \in {i \in I : \A j \in I : ~ReverseLess(s[j], s[i])}}

\* sort.Sort(sort.Reverse(ByScore{history})) : sort.Sort promises an order
\* by Less and no more ("The sort is not guaranteed to be stable"), so
\* every such order is a possible result.
SortSort(s) == Orders(s, 1..Len(s))

\* a reader for which a file that cannot be opened is fatal
readHistoryMissingFatal(f) ==
    IF ~f.exists \/ \E i \in 1..Len(f.lines) : ParseLine(f.lines[i]).panic
    THEN [panic |-> TRUE, out |-> {}]
    ELSE [panic |-> FALSE,
          out |-> SortSort([i \in 1..Len(f.lines) |->
                               ParseLine(f.lines[i]).command])]

\* a reader that drops the lines it cannot parse and returns the rest
readHistorySkipping(f) ==
    IF ~f.exists THEN [panic |-> FALSE, out |-> {<<>>}]
    ELSE LET good == SelectSeq(f.lines, LAMBDA l : ~ParseLine(l).panic)
         IN  [panic |-> FALSE,
              out |-> SortSort([i \in 1..Len(good) |->
                                   ParseLine(good[i]).command])]

\* readHistory(path): the possible results, or a panic
readHistory(f) ==
    IF ~f.exists THEN [panic |-> FALSE, out |-> {<<>>}]
    ELSE IF \E i \in 1..Len(f.lines) : ParseLine(f.lines[i]).panic
         THEN [panic |-> TRUE, out |-> {}]
         ELSE [panic |-> FALSE,
               out |-> SortSort([i \in 1..Len(f.lines) |->
                                    ParseLine(f.lines[i]).command])]

\* a loop that keeps comparing with the launched name after a match
NeverClears == FALSE

\* whether  lastCommand = ""  runs after a match
ClearsOnMatch == TRUE

RECURSIVE Traverse(_, _)
\* writeHistory's loop: the Commands as written (the matching one
\* incremented in place) and the value lastCommand ends with
Traverse(cs, last) ==
    IF cs = <<>> THEN [written |-> <<>>, last |-> last]
    ELSE LET hit == cs[1].Name = last
             c == IF hit THEN [cs[1] EXCEPT !.Calls = @ + 1] ELSE cs[1]
             rest == Traverse(Tail(cs),
                              IF hit /\ ClearsOnMatch THEN <<>> ELSE last)
         IN  [written |-> <<c>> \o rest.written, last |-> rest.last]

\* a writer that appends the launched name whatever the loop found
AppendsAlways(last) == TRUE

\* if lastCommand != ""
Appends(last) == last # <<>>

\* a writer that puts the records back in rank order before writing them
WrittenResorted(cs, launched) ==
    LET t == Traverse(cs, launched)
        all == t.written
               \o (IF Appends(t.last)
                   THEN <<[Name |-> launched, Calls |-> 1]>>
                   ELSE <<>>)
        resorted == CHOOSE s \in SortSort(all) : TRUE
    IN  [i \in 1..Len(all) |-> FormatLine(resorted[i])]

\* the lines writeHistory leaves in the file
WrittenLines(cs, launched) ==
    LET t == Traverse(cs, launched)
    IN  [i \in 1..Len(cs) |-> FormatLine(t.written[i])]
        \o (IF Appends(t.last)
            THEN <<FormatLine([Name |-> launched, Calls |-> 1])>>
            ELSE <<>>)

\* A line whose count field is no integer.
BadLine == <<"x", Tab, "v", "i">>

InitLines ==
    {FormatLine([Name |-> n, Calls |-> c]) : n \in FileNames, c \in FileCalls}
    \cup {BadLine}

\* What dmenu prints: nothing (cancelled) or one line.
DmenuOutputs == {<<>>} \cup {n \o <<Newline>> : n \in DmenuNames}

InitHist ==
    /\ file \in {NoFile} \cup {FileOf(ls) : ls \in SeqsUpTo(InitLines, MaxLines)}
    /\ history = <<>>
    /\ cmd = <<>>
    /\ lpc = "read"
    /\ started = FALSE
    /\ runs = 1
    /\ ScanIdle
    /\ MuxIdle

\* history := readHistory(historyPath)
ReadHistory ==
    /\ lpc = "read"
    /\ LET r == readHistory(file)
       IN  IF r.panic
           THEN /\ lpc' = "panic"
                /\ history' = <<>>
           ELSE /\ lpc' = "menu"
                /\ \E h \in r.out : history' = h
    /\ UNCHANGED <<file, cmd, started, runs>>
    /\ UNCHANGED notHist

\* a main that launches and records whatever runDmenu returned
RunDmenuUnguarded ==
    /\ lpc = "menu"
    /\ \E out \in DmenuOutputs :
          /\ cmd' = TrimSpace(out)
          /\ lpc' = "launch"
    /\ UNCHANGED <<file, history, started, runs>>
    /\ UNCHANGED notHist

\* cmd := runDmenu(...) ;  if len(cmd) > 0
RunDmenu ==
    /\ lpc = "menu"
    /\ \E out \in DmenuOutputs :
          /\ cmd' = TrimSpace(out)
          /\ lpc' = IF Len(TrimSpace(out)) > 0 THEN "launch" ELSE "exit"
    /\ UNCHANGED <<file, history, started, runs>>
    /\ UNCHANGED notHist

\* a launcher that goes on to the history update whatever LookPath said
LaunchCommandUnchecked ==
    /\ lpc = "launch"
    /\ \E found \in BOOLEAN :
          /\ started' = found
          /\ lpc' = "write"
    /\ UNCHANGED <<file, history, cmd, runs>>
    /\ UNCHANGED notHist

\* launchCommand(cmd): exec.LookPath finds the program, which is started,
\* or check panics
LaunchCommand ==
    /\ lpc = "launch"
    /\ \E found \in BOOLEAN :
          /\ started' = found
          /\ lpc' = IF found THEN "write" ELSE "panic"
    /\ UNCHANGED <<file, history, cmd, runs>>
    /\ UNCHANGED notHist

\* writeHistory(historyPath, history, cmd)
WriteHistory ==
    /\ lpc = "write"
    /\ file' = FileOf(WrittenLines(history, cmd))
    /\ history' = Traverse(history, cmd).written
    /\ lpc' = "exit"
    /\ UNCHANGED <<cmd, started, runs>>
    /\ UNCHANGED notHist

\* the launcher is started again: a new process on the same file
NextRun ==
    /\ lpc \in {"exit", "panic"}
    /\ runs < MaxRuns
    /\ runs' = runs + 1
    /\ started' = FALSE
    /\ history' = <<>>
    /\ cmd' = <<>>
    /\ lpc' = "read"
    /\ UNCHANGED file
    /\ UNCHANGED notHist

NextHist ==
    \/ ReadHistory
    \/ RunDmenu
    \/ LaunchCommand
    \/ WriteHistory
    \/ NextRun

SpecHist == InitHist /\ [][NextHist]_vars

\* The launcher started on a history file that is missing, or whose lines
\* all parse and carry pairwise different names.
InitHistClean ==
    /\ InitHist
    /\ \A i \in 1..Len(file.lines) : ~ParseLine(file.lines[i]).panic
    /\ \A i, j \in 1..Len(file.lines) :
          ParseLine(file.lines[i]).command.Name
             = ParseLine(file.lines[j]).command.Name => i = j

SpecHistClean == InitHistClean /\ [][NextHist]_vars

-----------------------------------------------------------------------------
(* Claims about multiplexMenuStreams                                       *)

\* C5: nothing is received from the commands channel before the history
\* channel is closed and drained, although the commands producer offers
\* its first name from the start; so in the output no name taken from
\* commands comes before a name taken from history.
C5_RankedFirst ==
    /\ dsent > 0 => hclosed /\ hsent = Len(ranked)
    /\ \A i, j \in 1..Len(muxFrom) :
          i < j => ~(muxFrom[i] = "commands" /\ muxFrom[j] = "history")

\* C5 witness: the output holds a history name followed by a commands name.
C5_Witness ==
    /\ Len(muxFrom) >= 2
    /\ muxFrom[1] = "history"
    /\ muxFrom[Len(muxFrom)] = "commands"

NotRanked(x) == \A i \in 1..Len(ranked) : ranked[i] # x

\* C6: the complete output is ranked, repeats included, followed by the
\* names of discovered that do not occur in ranked, in discovered's order
\* and once per occurrence.
C6_Output ==
    muxClosed => muxOut = ranked \o SelectSeq(discovered, NotRanked)

\* C6 witness: a repeated ranked name, a discovered name that is ranked and
\* a discovered name that is not ranked and occurs twice.
C6_Witness ==
    /\ muxClosed
    /\ ranked = <<"vim", "emacs", "vim">>
    /\ discovered = <<"emacs", "nano", "nano">>
    /\ muxOut = <<"vim", "emacs", "vim", "nano", "nano">>

\* C7: out is closed only when both sources are closed and drained and the
\* goroutine is past both loops; under fair scheduling, with producers that
\* close and a reader that keeps receiving, it is eventually closed; and
\* nothing is sent on it once it is closed.
C7_ClosesLast ==
    /\ [](muxClosed => /\ hclosed /\ hsent = Len(ranked)
                       /\ dclosed /\ dsent = Len(discovered)
                       /\ mpc = "done")
    /\ <>muxClosed
    /\ [][muxClosed => muxOut' = muxOut]_vars

\* C7 witness: the output is closed after names of both sources went out.
C7_Witness ==
    /\ muxClosed
    /\ hsent > 0
    /\ dsent > 0
    /\ Len(muxOut) > hsent

-----------------------------------------------------------------------------
(* Claims about scanPath                                                   *)

\* number of occurrences of x in the sequence s
Count(s, x) == Cardinality({i \in 1..Len(s) : s[i] = x})

RECURSIVE ListedIn(_, _, _)
\* occurrences of x among the executable entries of the first n directories
ListedIn(ds, n, x) ==
    IF n = 0 THEN 0
    ELSE ListedIn(ds, n - 1, x)
         + Cardinality({k \in 1..Len(ReadDir(ds[n])) :
                          /\ IsExec(ReadDir(ds[n])[k])
                          /\ ReadDir(ds[n])[k].name = x})

Listed(x) == ListedIn(dirs, Len(dirs), x)

AllDone == \A i \in Workers : wpc[i] = "done" /\ fclosed[i] /\ fch[i] = <<>>

\* C1: once out is closed, the names received are, as a multiset, exactly
\* the executable names of all directories of the path: nothing lost,
\* nothing extra, a name of two directories twice.
C1_EmitsEveryEntry ==
    outClosed => \A x \in DOMAIN Bytes : Count(result, x) = Listed(x)

\* C2: nothing is sent on out, and the aggregate is not even sorted, while
\* a worker is still running: every worker has been spawned, has drained
\* its closed channel and has called Done.
C2_Barrier ==
    (result # <<>> \/ epc \in {"sort", "emit", "closed"}) =>
        /\ spawned = Len(dirs)
        /\ group = 0
        /\ AllDone

\* C2 witness: the first name has just been sent, two workers had entries.
C2_Witness ==
    /\ Len(result) = 1
    /\ Len(dirs) = 2
    /\ \A i \in Workers : fidx[i] > 0

ScanFinished ==
    /\ outClosed
    /\ AllDone
    /\ group = 0
    /\ result = commands

\* C4: under fair scheduling, with a consumer that keeps receiving, the
\* scan always finishes: every worker is done, Wait has returned, every
\* aggregated name has been emitted and out is closed.
C4_Terminates == <>ScanFinished

\* C4 witness: a finished scan whose path holds an unreadable directory
\* next to a directory with entries.
C4_Witness ==
    /\ outClosed
    /\ \E i \in Workers : ~dirs[i].ok
    /\ result # <<>>

-----------------------------------------------------------------------------
(* Claims about readHistory and writeHistory                               *)

\* the Commands of the file's lines, in file order
Records(f) == [i \in 1..Len(f.lines) |-> ParseLine(f.lines[i]).command]

\* position of s[i] when s is put in descending order of Calls with
\* equal Calls kept in their order in s
DescRank(s, i) ==
    Cardinality({j \in 1..Len(s) :
                    \/ s[j].Calls > s[i].Calls
                    \/ (s[j].Calls = s[i].Calls /\ j <= i)})

StableDescending(s) ==
    [k \in 1..Len(s) |-> s[CHOOSE i \in 1..Len(s) : DescRank(s, i) = k]]

FirstMatch(cs, n) ==
    IF \E i \in 1..Len(cs) : cs[i].Name = n
    THEN CHOOSE i \in 1..Len(cs) :
            /\ cs[i].Name = n
            /\ \A j \in 1..Len(cs) : cs[j].Name = n => i <= j
    ELSE 0

\* the step taken is a complete call of writeHistory
Wrote == lpc = "write" /\ lpc' = "exit"

\* C9: writeHistory adds 1 to the Calls of the first Command named like
\* the launched program and to no other: every Command, a later one of
\* the same name included, is written (and left in memory) with its Name
\* and, but for that first match, its Calls as they were.
C9_IncrementsFirstMatch ==
    [][Wrote =>
          /\ Len(history') = Len(history)
          /\ Len(file'.lines) >= Len(history)
          /\ \A i \in 1..Len(history) :
                LET c == [Name |-> history[i].Name,
                          Calls |-> history[i].Calls
                                    + (IF i = FirstMatch(history, cmd)
                                       THEN 1 ELSE 0)]
                IN  /\ history'[i] = c
                    /\ file'.lines[i] = FormatLine(c)]_vars

\* C9 witness: writeHistory has run on Commands of which two carry the
\* launched name.
C9_Witness ==
    /\ lpc = "exit"
    /\ cmd # <<>>
    /\ \E i, j \in 1..Len(history) :
          i < j /\ history[i].Name = cmd /\ history[j].Name = cmd

\* C10: writeHistory writes one more line than it was given Commands, the
\* last one being "1<tab>launched name", exactly when no Command carries
\* the launched name; otherwise it writes one line per Command and no more.
C10_AppendsIffNew ==
    [][Wrote =>
          IF \E i \in 1..Len(history) : history[i].Name = cmd
          THEN Len(file'.lines) = Len(history)
          ELSE /\ Len(file'.lines) = Len(history) + 1
               /\ file'.lines[Len(history) + 1]
                     = <<"1", Tab>> \o cmd
               /\ \A i \in 1..Len(history) :
                     file'.lines[i] = FormatLine(history[i])]_vars

\* C10 witness: writeHistory has appended a record after two existing ones.
C10_Witness ==
    /\ lpc = "exit"
    /\ cmd # <<>>
    /\ Len(history) = 2
    /\ Len(file.lines) = 3
    /\ file.lines[3] = <<"1", Tab>> \o cmd

\* C11: writeHistory leaves in the file one line per Command it was given,
\* the i-th line being the i-th Command's Calls (after the increment), a
\* tab and its Name, in the order of the argument even where that is no
\* longer rank order; the only other line is the appended record, so
\* nothing the file held before remains.
C11_WritesInArgumentOrder ==
    [][Wrote =>
          /\ Len(file'.lines) \in {Len(history), Len(history) + 1}
          /\ \A i \in 1..Len(history) :
                file'.lines[i]
                   = Itoa(history'[i].Calls) \o <<Tab>> \o history[i].Name
          /\ Len(file'.lines) = Len(history) + 1 =>
                file'.lines[Len(history) + 1] = <<"1", Tab>> \o cmd]_vars

\* C11 witness: writeHistory has run on a file of three lines, and the
\* increment left a later Command with more Calls than an earlier one;
\* the file has the Commands in that order.
C11_Witness ==
    /\ lpc = "exit"
    /\ cmd # <<>>
    /\ Len(history) = 3
    /\ Len(file.lines) = 3
    /\ \E i, j \in 1..Len(history) :
          /\ i < j
          /\ history[i].Calls < history[j].Calls
          /\ file.lines[i] = FormatLine(history[i])
          /\ file.lines[j] = FormatLine(history[j])

\* the text of a line before its first tab is not a decimal number
BadCount(line) ==
    LET field == Split(TrimSpace(line), Tab)[1]
    IN  field = <<>> \/ \E i \in 1..Len(field) : ~IsDigit(field[i])

\* the step taken is a complete call of readHistory
Read == lpc = "read" /\ lpc' # "read"

\* C12: when some line of the file, at whatever position, has a count
\* field that is no integer, a call of readHistory ends in the panic:
\* the launcher does not go on to the menu and no Command, of the good
\* lines either, is returned.
C12_AbortsOnBadCount ==
    [][(Read /\ \E i \in 1..Len(file.lines) : BadCount(file.lines[i])) =>
          /\ lpc' = "panic"
          /\ history' = <<>>]_vars

\* C12 witness: readHistory has panicked on a file whose first two lines
\* are good records and whose last line has the bad count.
C12_Witness ==
    /\ lpc = "panic"
    /\ cmd = <<>>
    /\ Len(file.lines) = 3
    /\ ~BadCount(file.lines[1])
    /\ ~BadCount(file.lines[2])
    /\ BadCount(file.lines[3])

\* C13: when the history file does not exist, a call of readHistory does
\* not panic and returns no Command: the launcher goes on to the menu with
\* an empty history.
C13_MissingFileIsEmpty ==
    [][(Read /\ ~file.exists) =>
          /\ lpc' = "menu"
          /\ history' = <<>>]_vars

\* C13 witness: a first cycle on a missing file went through the menu and
\* the launch, and writeHistory created the file with its one record.
C13_Witness ==
    /\ runs = 1
    /\ lpc = "exit"
    /\ cmd # <<>>
    /\ history = <<>>
    /\ file = FileOf(<<<<"1", Tab>> \o cmd>>)

RECURSIVE SumCalls(_, _, _)
\* the Calls of the first k Commands of s named n, added up
SumCalls(s, n, k) ==
    IF k = 0 THEN 0
    ELSE SumCalls(s, n, k - 1) + (IF s[k].Name = n THEN s[k].Calls ELSE 0)

\* the Calls the file holds for the name n, as readHistory parses the file
\* (0 when no record carries the name)
Persisted(f, n) == SumCalls(Records(f), n, Len(f.lines))

\* the names of the file's records, as readHistory parses them
NamesOf(f) == {Records(f)[i].Name : i \in 1..Len(f.lines)}

\* C14: no step lowers the Calls the file holds for a name, and a cycle
\* that records the launch of a name raises the Calls the file holds for
\* that name by exactly 1 (from none to 1 for a new name) and leaves the
\* Calls of every other name as they were.
C14_CallsGrowByOne ==
    [][\A n \in NamesOf(file) \cup NamesOf(file') \cup {cmd} :
          /\ Persisted(file', n) >= Persisted(file, n)
          /\ Wrote => Persisted(file', n)
                         = Persisted(file, n) + (IF n = cmd THEN 1 ELSE 0)]_vars

\* C15: on a history file that was missing or free of duplicates at the
\* start, the file holds at every moment, as readHistory parses it, at
\* most one Command per name.
C15_OnePerName ==
    \A i, j \in 1..Len(file.lines) :
       Records(file)[i].Name = Records(file)[j].Name => i = j

-----------------------------------------------------------------------------
(* Claims about fetchExecutables                                           *)

\* the mode m has the owner's, the group's or the others' execute bit
HasExecuteBit(m) ==
    \/ (m \div 64) % 2 = 1
    \/ (m \div 8) % 2 = 1
    \/ m % 2 = 1

\* no entry of the listing d at a position in lo..hi has an execute bit
NoneExecutable(d, lo, hi) ==
    \A k \in lo..hi : k \in 1..Len(d.files) => ~HasExecuteBit(d.files[k].mode)

\* the step puts a name on the channel of fetcher i
Emits(i) == ~fclosed[i] /\ Len(fch'[i]) > Len(fch[i])

\* the step closes the channel of fetcher i
Closes(i) == ~fclosed[i] /\ fclosed'[i]

\* C16: each name fetchExecutables puts on its channel is the name of an
\* entry of a readable directory with an execute bit, taken further down
\* the listing than the one before, with no entry that has an execute bit
\* passed over; the channel is closed only when no such entry is left, it
\* carries no name after that, and it is closed in the end, for a
\* directory that cannot be read (which gives no name) as well.
C16_EmitsExecutables ==
    /\ [][\A i \in Workers :
             /\ Emits(i) =>
                   /\ dirs[i].ok
                   /\ fidx'[i] > fidx[i]
                   /\ fidx'[i] <= Len(dirs[i].files)
                   /\ HasExecuteBit(dirs[i].files[fidx'[i]].mode)
                   /\ fch'[i] = Append(fch[i], dirs[i].files[fidx'[i]].name)
                   /\ NoneExecutable(dirs[i], fidx[i] + 1, fidx'[i] - 1)
             /\ Closes(i) =>
                   \/ ~dirs[i].ok
                   \/ NoneExecutable(dirs[i], fidx[i] + 1, Len(dirs[i].files))
             /\ fclosed[i] => (fclosed'[i] /\ Len(fch'[i]) <= Len(fch[i]))]_vars
    /\ <>(\A i \in Workers : fclosed[i])

\* C16 witness: the fetcher of a directory with one entry of mode 0111 and
\* one of mode 0666 has put the first name on its channel and closed it,
\* and the fetcher of a directory that cannot be read has closed its
\* channel without a name on it.
C16_Witness ==
    \E i, j \in Workers :
       /\ dirs[i] = Readable(<<File("Xorg", 73), File("nano", 438)>>)
       /\ fclosed[i]
       /\ fch[i] = <<"Xorg">>
       /\ ~dirs[j].ok
       /\ fclosed[j]
       /\ fch[j] = <<>>

-----------------------------------------------------------------------------
(* Claims about the shared slice of scanPath                               *)

\* worker i has read the shared slice for its append and not yet written
\* the extended slice back
InAppend(i) == wpc[i] = "store"

\* C17: never are two workers inside the append to the shared slice at
\* the same time, and while the emitter sorts the slice or reads it for
\* sending, every worker has called Done and writes no more.
C17_Discipline ==
    /\ \A i, j \in Workers : (InAppend(i) /\ InAppend(j)) => i = j
    /\ epc \in {"sort", "emit"} => \A i \in Workers : wpc[i] = "done"

-----------------------------------------------------------------------------
(* Claims about main's launcher cycle                                      *)

\* C18: when runDmenu returns the empty string the invocation ends there,
\* with the file and the loaded Commands as they were; launchCommand and
\* writeHistory run only with a selection that is not empty; the file
\* changes in no step but a call of writeHistory, and after that call the
\* invocation is over, so that it writes at most once.
C18_NoWriteOnCancel ==
    [][/\ (lpc = "menu" /\ cmd' = <<>>) =>
             (lpc' = "exit" /\ file' = file /\ history' = history)
       /\ lpc \in {"launch", "write"} => cmd # <<>>
       /\ file' # file => Wrote
       /\ lpc = "exit" => (lpc' = "read" /\ runs' = runs + 1 /\ file' = file)]_vars

\* C18 witness: a second invocation on the file loaded its two Commands
\* and ended on an empty selection.
C18_Witness ==
    /\ runs = 2
    /\ lpc = "exit"
    /\ cmd = <<>>
    /\ Len(history) = 2
    /\ Len(file.lines) = 2

\* the Commands c after a launch of x is recorded: the Command named x
\* with one more call, or a new Command for x at the end
Recorded(c, x) ==
    IF \E i \in 1..Len(c) : c[i].Name = x
    THEN [i \in 1..Len(c) |->
             IF c[i].Name = x
             THEN [Name |-> x, Calls |-> c[i].Calls + 1]
             ELSE c[i]]
    ELSE Append(c, [Name |-> x, Calls |-> 1])

\* C19: after writeHistory has recorded the selection on Commands with
\* pairwise different names, readHistory on the file it wrote does not
\* panic and returns just those Commands, the selected one with one more
\* call or newly added with one call, each under its full name, in
\* descending order of Calls.
C19_RoundTrip ==
    [][(Wrote /\ \A i, j \in 1..Len(history) :
                    history[i].Name = history[j].Name => i = j) =>
          LET r == readHistory(file')
              e == Recorded(history, cmd)
          IN  /\ ~r.panic
              /\ \A h \in r.out :
                    /\ Len(h) = Len(e)
                    /\ \A i \in 1..Len(e) : Count(h, e[i]) = 1
                    /\ \A i, j \in 1..Len(h) :
                          i < j => h[i].Calls >= h[j].Calls]_vars

\* C20: when launchCommand ends without having started a program (the
\* name was not found on the search path) main goes to the panic, with
\* the file and the Commands as they were, and the invocation does no
\* more; writeHistory is reached only from a launchCommand that started
\* the program, so every call of it records a program that was launched.
C20_NoUpdateOnFailedLaunch ==
    [][/\ (lpc = "launch" /\ ~started') =>
             (lpc' = "panic" /\ file' = file /\ history' = history)
       /\ lpc' = "write" => (lpc = "launch" /\ started')
       /\ Wrote => started
       /\ lpc = "panic" => (lpc' = "read" /\ runs' = runs + 1 /\ file' = file)]_vars

\* C20 witness: the selected name, one the file already counts, was not
\* found; main is in the panic and the file still has the count it had.
C20_Witness ==
    /\ lpc = "panic"
    /\ cmd # <<>>
    /\ ~started
    /\ \E i \in 1..Len(history) :
          /\ history[i].Name = cmd
          /\ \E k \in 1..Len(file.lines) :
                file.lines[k] = FormatLine(history[i])

=============================================================================
